---- MODULE Spec2Model ----
(***************************************************************************)
(* Model of the VPC provisioning service: the intake handler               *)
(* (src/api_handler.py) and the provisioning worker                        *)
(* (src/lambda/worker_handler.py), with the DynamoDB table, the SQS queue  *)
(* and the EC2 API they talk to.                                           *)
(*                                                                         *)
(* Conventions.  A Python dict is a function whose DOMAIN is its key set;  *)
(* an attribute holding None is modelled as an absent key (the code reads  *)
(* attributes with dict.get, which cannot tell the two apart).  Strings    *)
(* that are concatenated or used as table keys are sequences of string     *)
(* pieces.  A CIDR text is the record [addr, len] over an AddrBits-bit     *)
(* address space.                                                          *)
(***************************************************************************)
EXTENDS Integers, Sequences, FiniteSets, TLC

\* ------------------------------------------------------------------ bounds
NumCallers == 2
NumWorkers == 2
MaxDeliveries == 2
MaxBatch == 2
MaxClock == 1
AddrBits == 3
MaxInputSubnets == 3

\* ------------------------------------------------------- program constants
MAX_SUBNETS == 10
TTL_SECONDS == 86400

Callers == 1..NumCallers
Workers == 1..NumWorkers

VARIABLES
    table,      \* the DynamoDB table: key -> item
    queue,      \* the SQS queue: set of messages [mid, request_id] not yet deleted
    sent,       \* number of send_message calls so far
    clock,      \* wall clock read by _now_iso / _now_epoch
    nextUuid,   \* number of uuid4 values drawn so far
    api,        \* per intake invocation: position, event, locals, response
    lockWins,   \* history: conditional lock writes that succeeded
    wk,         \* per worker invocation: position and locals of lambda_handler
    ec2,        \* the EC2 account: vpcs and subnets that exist
    deliveries, \* number of batch deliveries made by the queue so far
    scanOrder,  \* the order in which a Scan walks the table's keys
    lst,        \* a list-requests client: its query, the pages it got so far
    val         \* a payload under validation and what _validate_request made of it

coreVars == <<table, queue, sent, clock, nextUuid, api, lockWins, wk, ec2, deliveries>>

sideVars == <<scanOrder, lst, val>>

vars == <<table, queue, sent, clock, nextUuid, api, lockWins, wk, ec2, deliveries,
          scanOrder, lst, val>>

\* ------------------------------------------------------------ dictionaries
EmptyDict == [x \in {} |-> TRUE]

Has(d, k) == k \in DOMAIN d

Get(d, k, default) == IF k \in DOMAIN d THEN d[k] ELSE default

Put(t, k, item) == (k :> item) @@ t

\* --------------------------------------------------------------- CIDR text
Pow2(n) == 2 ^ n

Cidr(a, l) == [addr |-> a, len |-> l]

\* ipaddress.ip_network(text, strict=True): fails when host bits are set
ip_network_ok(c) == c.addr % Pow2(AddrBits - c.len) = 0

First(c) == c.addr

Last(c) == c.addr + Pow2(AddrBits - c.len) - 1

\* IPv4Network.subnet_of
subnet_of(a, b) == First(b) <= First(a) /\ Last(a) <= Last(b)

\* an overlap test that only sees networks starting at one address
overlaps_same_first(a, b) == First(a) = First(b)

\* IPv4Network.overlaps
overlaps(a, b) == First(a) <= Last(b) /\ First(b) <= Last(a)

\* ----------------------------------------------------------------- inputs
Subnet(c, az) == [cidr |-> c, az |-> az]

NamedSubnet(c, az, n) == [cidr |-> c, az |-> az, name |-> n]

\* the network of addresses 0..3 and, in it, the halves 0..1 and 2..3
Net4 == Cidr(0, AddrBits - 2)

LowHalf == Cidr(0, AddrBits - 1)

HighHalf == Cidr(2, AddrBits - 1)

PayloadA ==
    [vpc |-> [cidr |-> Net4],
     subnets |-> <<NamedSubnet(LowHalf, "zone-a", "web"), Subnet(HighHalf, "zone-b")>>]

PayloadB ==
    [vpc |-> [cidr |-> Net4],
     subnets |-> <<Subnet(HighHalf, "zone-a")>>]

\* the second subnet, the single address 1, lies in the first
PayloadOverlap ==
    [vpc |-> [cidr |-> Net4],
     subnets |-> <<Subnet(LowHalf, "zone-a"), Subnet(Cidr(1, AddrBits), "zone-a")>>]

NoHeader == <<>>

Event(sub, idem, payload) == [created_by |-> sub, idem |-> idem, payload |-> payload]

Events ==
    { Event(<<"a">>, <<"c">>, PayloadA),
      Event(<<"a">>, <<"c">>, PayloadB),
      Event(<<"a">>, <<"c">>, PayloadOverlap),
      Event(<<"a", "#", "b">>, <<"c">>, PayloadB),
      Event(<<"a">>, <<"b", "#", "c">>, PayloadB),
      Event(<<"a">>, NoHeader, PayloadA) }

\* ------------------------------------------------------ _validate_request
\* the attributes of item named in keys that are present (None is absent)
Pick(item, keys) == [k \in (keys \cap DOMAIN item) |-> item[k]]

\* line 131: the parsed subnet keeps cidr, az and name only
parsed(s) == Pick(s, {"cidr", "az", "name"})

\* The first violation found while scanning subnets[1..n], or "none".
RECURSIVE SubnetError(_, _, _)
SubnetError(vpc_cidr, subnets, i) ==
    IF i > Len(subnets) THEN [kind |-> "none"]
    ELSE LET cidr == subnets[i].cidr
             clash == {j \in 1..(i - 1) : overlaps(cidr, subnets[j].cidr)}
         IN  IF ~Has(subnets[i], "az")
                 THEN [kind |-> "missing_az", index |-> i - 1]
             ELSE IF ~ip_network_ok(cidr)
                 THEN [kind |-> "invalid_subnet_cidr", cidr |-> cidr, index |-> i - 1]
             ELSE IF ~subnet_of(cidr, vpc_cidr)
                 THEN [kind |-> "not_within_vpc", cidr |-> cidr, vpc_cidr |-> vpc_cidr]
             ELSE IF clash # {}
                 THEN [kind |-> "overlaps", cidr |-> cidr,
                       prior |-> subnets[CHOOSE j \in clash : \A k \in clash : j <= k].cidr]
             ELSE SubnetError(vpc_cidr, subnets, i + 1)

_validate_request(payload) ==
    LET vpc_cidr == payload.vpc.cidr
        subnets == payload.subnets
    IN  IF ~ip_network_ok(vpc_cidr)
            THEN [ok |-> FALSE, error |-> [kind |-> "invalid_vpc_cidr", cidr |-> vpc_cidr]]
        ELSE IF Len(subnets) = 0
            THEN [ok |-> FALSE, error |-> [kind |-> "missing_subnets"]]
        ELSE IF Len(subnets) > MAX_SUBNETS
            THEN [ok |-> FALSE,
                  error |-> [kind |-> "too_many_subnets", count |-> Len(subnets),
                             max |-> MAX_SUBNETS]]
        ELSE LET e == SubnetError(vpc_cidr, subnets, 1)
             IN  IF e.kind # "none" THEN [ok |-> FALSE, error |-> e]
                 ELSE [ok |-> TRUE, vpc_cidr |-> vpc_cidr,
                       subnets |-> [j \in 1..Len(subnets) |-> parsed(subnets[j])]]

ValIdle == [pc |-> "idle", payload |-> EmptyDict, result |-> EmptyDict]

\* lines 166-170: the payload is handed to _validate_request
validate ==
    /\ val.pc = "ready"
    /\ val' = [val EXCEPT !.pc = "done", !.result = _validate_request(val.payload)]
    /\ UNCHANGED <<scanOrder, lst>>
    /\ UNCHANGED coreVars

\* ------------------------------------------------------------ intake: keys
_lock_pk(created_by, idem) == <<"lock", "#">> \o created_by \o <<"#">> \o idem

Uuid(n) == <<"uuid", ToString(n)>>

_resp(status, body) == [statusCode |-> status, body |-> body]

NoResp == _resp(0, EmptyDict)

ApiIdle ==
    [pc |-> "start", event |-> Event(<<>>, <<>>, PayloadA), request_id |-> <<>>,
     now_iso |-> 0, ttl_epoch |-> 0, existing_request_id |-> <<>>, resp |-> NoResp]

LockKeyOf(c) == _lock_pk(api[c].event.created_by, api[c].event.idem)

\* ------------------------------------------------------- handle_post_vpcs
\* lines 161-176: read the event, validate, draw the clock and a uuid
post_begin(c) ==
    /\ api[c].pc = "start"
    /\ \A b \in Callers : b < c => api[b].pc # "start"
    /\ \E e \in Events :
         LET v == _validate_request(e.payload) IN
         IF e.idem = NoHeader
         THEN /\ api' = [api EXCEPT ![c].event = e, ![c].pc = "done",
                            ![c].resp = _resp(400, [message |-> [kind |-> "missing_header"]])]
              /\ UNCHANGED <<clock, nextUuid>>
         ELSE IF ~v.ok
         THEN /\ api' = [api EXCEPT ![c].event = e, ![c].pc = "done",
                            ![c].resp = _resp(400, [message |-> v.error])]
              /\ UNCHANGED <<clock, nextUuid>>
         ELSE \E t \in clock..MaxClock :
              /\ clock' = t
              /\ nextUuid' = nextUuid + 1
              /\ api' = [api EXCEPT ![c].event = e, ![c].pc = "put_lock",
                            ![c].now_iso = t, ![c].ttl_epoch = t + TTL_SECONDS,
                            ![c].request_id = Uuid(nextUuid + 1)]
    /\ UNCHANGED <<table, queue, sent, lockWins, wk, ec2, deliveries>>

LockItem(c) ==
    [type |-> "IDEMPOTENCY_LOCK", ttl_epoch |-> api[c].ttl_epoch,
     lock_request_id |-> api[c].request_id, created_at |-> api[c].now_iso]

\* a put_item that carries no condition expression
attribute_not_exists_dropped(t, key) == TRUE

\* line 188: ConditionExpression attribute_not_exists(request_id)
attribute_not_exists(t, key) == ~Has(t, key)

\* lines 179-194: the conditional put_item of the lock row
post_put_lock(c) ==
    /\ api[c].pc = "put_lock"
    /\ IF attribute_not_exists(table, LockKeyOf(c))
       THEN /\ table' = Put(table, LockKeyOf(c), LockItem(c))
            /\ lockWins' = lockWins \cup
                   {[caller |-> c, lock_key |-> LockKeyOf(c), item |-> LockItem(c)]}
            /\ api' = [api EXCEPT ![c].pc = "put_request"]
       ELSE /\ api' = [api EXCEPT ![c].pc = "get_lock"]
            /\ UNCHANGED <<table, lockWins>>
    /\ UNCHANGED <<queue, sent, clock, nextUuid, wk, ec2, deliveries>>

\* lines 197-201: read the lock row
post_get_lock(c) ==
    /\ api[c].pc = "get_lock"
    /\ IF ~Has(table, LockKeyOf(c)) \/ ~Has(table[LockKeyOf(c)], "lock_request_id")
       THEN api' = [api EXCEPT ![c].pc = "done",
                       ![c].resp = _resp(409, [message |-> [kind |-> "lock_unreadable"]])]
       ELSE api' = [api EXCEPT ![c].pc = "get_existing",
                       ![c].existing_request_id = table[LockKeyOf(c)].lock_request_id]
    /\ UNCHANGED <<table, queue, sent, clock, nextUuid, lockWins, wk, ec2, deliveries>>

\* a replay that leaves result and error_message out
ReplayBody_status_only(rid, existing) ==
    [request_id |-> rid, status |-> Get(existing, "status", "UNKNOWN")]

\* lines 208-213: the replay snapshot
ReplayBody(rid, existing) ==
    [request_id |-> rid, status |-> Get(existing, "status", "UNKNOWN")]
        @@ Pick(existing, {"result", "error_message"})

\* a replay that answers Not Found while the request row is not visible
QueuedReplay_404(rid) == _resp(404, [message |-> [kind |-> "not_found"]])

\* line 206: the minimal snapshot when the request row is not visible yet
QueuedReplay(rid) == _resp(202, [request_id |-> rid, status |-> "QUEUED"])

\* a replay that answers with the id this call drew for itself
replay_request_id_own(c) == api[c].request_id

\* line 201: the id the replay answers with
replay_request_id(c) == api[c].existing_request_id

\* lines 202-213: read the owner's request row and answer the replay
post_get_existing(c) ==
    /\ api[c].pc = "get_existing"
    /\ LET rid == replay_request_id(c) IN
       IF ~Has(table, rid)
       THEN api' = [api EXCEPT ![c].pc = "done", ![c].resp = QueuedReplay(rid)]
       ELSE api' = [api EXCEPT ![c].pc = "done",
                       ![c].resp = _resp(202, ReplayBody(rid, table[rid]))]
    /\ UNCHANGED <<table, queue, sent, clock, nextUuid, lockWins, wk, ec2, deliveries>>

RequestItem(c) ==
    LET v == _validate_request(api[c].event.payload) IN
    [type |-> "VPC_REQUEST", created_by |-> api[c].event.created_by,
     idempotency_key |-> api[c].event.idem, created_at |-> api[c].now_iso,
     updated_at |-> api[c].now_iso, ttl_epoch |-> api[c].ttl_epoch, status |-> "QUEUED",
     request |-> [vpc |-> [cidr |-> v.vpc_cidr], subnets |-> v.subnets]]

\* lines 216-229: create the request record
post_put_request(c) ==
    /\ api[c].pc = "put_request"
    /\ table' = Put(table, api[c].request_id, RequestItem(c))
    /\ api' = [api EXCEPT ![c].pc = "send"]
    /\ UNCHANGED <<queue, sent, clock, nextUuid, lockWins, wk, ec2, deliveries>>

\* lines 231-233: enqueue the message and answer 202
post_send(c) ==
    /\ api[c].pc = "send"
    /\ sent' = sent + 1
    /\ queue' = queue \cup {[mid |-> sent + 1, request_id |-> api[c].request_id]}
    /\ api' = [api EXCEPT ![c].pc = "done",
                  ![c].resp = _resp(202, [request_id |-> api[c].request_id,
                                          status |-> "QUEUED"])]
    /\ UNCHANGED <<table, clock, nextUuid, lockWins, wk, ec2, deliveries>>

\* the invocation dies between two store or queue calls (timeout, store error)
post_crash(c) ==
    /\ api[c].pc \in {"put_lock", "get_lock", "get_existing", "put_request", "send"}
    /\ api' = [api EXCEPT ![c].pc = "crashed"]
    /\ UNCHANGED <<table, queue, sent, clock, nextUuid, lockWins, wk, ec2, deliveries>>

handle_post_vpcs(c) ==
    \/ post_begin(c)
    \/ post_put_lock(c)
    \/ post_get_lock(c)
    \/ post_get_existing(c)
    \/ post_put_request(c)
    \/ post_send(c)
    \/ post_crash(c)

\* ---------------------------------------------------------- worker: store
Terminal == {"CREATED", "FAILED"}

\* a write that replaces the whole item by the supplied fields
_update_fields_put(t, request_id, now, fields) ==
    Put(t, request_id, [updated_at |-> now] @@ Pick(fields, {"status", "result"}))

\* an update that never sets result
_update_fields_no_result(t, request_id, now, fields) ==
    Put(t, request_id,
        [updated_at |-> now] @@ Pick(fields, {"status"}) @@ Get(t, request_id, EmptyDict))

\* lines 26-58: update_item SET updated_at and each supplied field (an upsert)
_update_fields(t, request_id, now, fields) ==
    Put(t, request_id,
        [updated_at |-> now]
            @@ Pick(fields, {"status", "result"})
            @@ (IF Has(fields, "error") THEN [error_message |-> fields.error] ELSE EmptyDict)
            @@ Get(t, request_id, EmptyDict))

\* lines 60-67: the item, or a ValueError
_get_request_ok(t, request_id) ==
    Has(t, request_id) /\ Get(t[request_id], "type", "") = "VPC_REQUEST"

\* a short-circuit that forgets FAILED
is_terminal_created_only(item) == Get(item, "status", "") = "CREATED"

\* line 88: the terminal-state short-circuit
is_terminal(item) == Get(item, "status", "") \in Terminal

\* line 102: the (cidr, az) keys of the recorded subnets
KeyOf(s) == <<s.cidr, s.az>>

keys_of(created_subnets) == {KeyOf(created_subnets[j]) : j \in 1..Len(created_subnets)}

\* a loop that never skips
already_created_never(s, created_by_key) == FALSE

\* line 121: a recorded subnet is skipped
already_created(s, created_by_key) == KeyOf(s) \in created_by_key

\* line 107: the network is created only when no vpc_id was recovered
NoId == 0

needs_vpc(vpc_id) == vpc_id = NoId

\* ------------------------------------------------------------ worker: EC2
NoEc2 == [vpcs |-> {}, subnets |-> {}]

NewVpcId == Cardinality(ec2.vpcs) + 1

NewSubnetId == Cardinality(ec2.subnets) + 1

\* EC2 refuses a subnet whose CIDR conflicts with one already in the VPC
subnet_conflict(vpc_id, cidr) ==
    \E x \in ec2.subnets : x.vpc_id = vpc_id /\ overlaps(x.cidr, cidr)

Outcomes == {"ok", "ClientError", "OtherError"}

\* ------------------------------------------------------ worker: invocation
WkIdle ==
    [pc |-> "idle", hr |-> "none", records |-> <<>>, idx |-> 0, request_id |-> <<>>,
     req |-> EmptyDict, recovered |-> EmptyDict, current_result |-> EmptyDict,
     vpc_id |-> NoId,
     created_subnets |-> <<>>, created_by_key |-> {}, i |-> 0, subnet_id |-> NoId,
     error |-> <<>>, calls |-> <<>>]

Range(s) == {s[j] : j \in 1..Len(s)}

\* the batches the queue may hand over: distinct messages, at most MaxBatch
Batches ==
    UNION {{b \in [1..n -> queue] : \A j, k \in 1..n : b[j] = b[k] => j = k} :
              n \in 1..MaxBatch}

\* lines 91-93
subnets_req(rec) == Get(rec.req, "subnets", <<>>)

vpc_req(rec) == Get(rec.req, "vpc", EmptyDict)

\* line 155: the queue hands a batch of records to an invocation
wk_deliver(w) ==
    /\ wk[w].pc = "idle"
    /\ \A v \in Workers : v < w => wk[v].pc # "idle"
    /\ deliveries < MaxDeliveries
    /\ \E batch \in Batches :
         wk' = [wk EXCEPT ![w] = [WkIdle EXCEPT !.pc = "load", !.records = batch, !.idx = 1,
                                                !.request_id = batch[1].request_id]]
    /\ deliveries' = deliveries + 1
    /\ UNCHANGED <<table, queue, sent, clock, nextUuid, api, lockWins, ec2>>

\* handle_request returned: lines 155-157 go on to the next record, and the
\* invocation that returns after the last one has its batch deleted
Return(w, rec) ==
    IF rec.idx < Len(rec.records)
    THEN /\ wk' = [wk EXCEPT ![w] = [WkIdle EXCEPT !.hr = "returned", !.pc = "load",
                                                  !.records = rec.records,
                                                  !.idx = rec.idx + 1,
                                                  !.request_id = rec.records[rec.idx + 1].request_id]]
         /\ UNCHANGED queue
    ELSE /\ wk' = [wk EXCEPT ![w] = [WkIdle EXCEPT !.hr = "returned"]]
         /\ queue' = queue \ Range(rec.records)

\* an exception that is swallowed: lambda_handler goes on as after a return
Raise_swallowed(w, rec) ==
    IF rec.idx < Len(rec.records)
    THEN /\ wk' = [wk EXCEPT ![w] = [WkIdle EXCEPT !.hr = "returned", !.pc = "load",
                                                  !.records = rec.records,
                                                  !.idx = rec.idx + 1,
                                                  !.request_id = rec.records[rec.idx + 1].request_id]]
         /\ UNCHANGED queue
    ELSE /\ wk' = [wk EXCEPT ![w] = [WkIdle EXCEPT !.hr = "returned"]]
         /\ queue' = queue \ Range(rec.records)

\* an exception leaves lambda_handler: the batch stays on the queue
Raise(w, rec) ==
    /\ wk' = [wk EXCEPT ![w] = [WkIdle EXCEPT !.hr = "raised"]]
    /\ UNCHANGED queue

\* the position after subnet i - 1: the next unrecorded subnet, or the end
Advance(rec, i) ==
    LET todo == {j \in i..Len(subnets_req(rec)) :
                    ~already_created(subnets_req(rec)[j], rec.created_by_key)}
    IN  IF todo = {} THEN [rec EXCEPT !.pc = "final", !.i = Len(subnets_req(rec)) + 1]
        ELSE [rec EXCEPT !.pc = "create_subnet",
                         !.i = CHOOSE j \in todo : \A k \in todo : j <= k]

\* lines 86-102: load the request, short-circuit, recover partial progress
hr_load(w) ==
    /\ wk[w].pc = "load"
    /\ LET rid == wk[w].request_id
           fresh == [wk[w] EXCEPT !.hr = "running"]
       IN  IF ~_get_request_ok(table, rid) THEN Raise(w, fresh)
           ELSE LET item == table[rid]
                    result == Get(item, "result", EmptyDict)
                    created == Get(result, "subnets", <<>>)
                    rec == [fresh EXCEPT !.req = Get(item, "request", EmptyDict),
                                         !.recovered = result,
                                         !.current_result = result,
                                         !.vpc_id = Get(result, "vpc_id", NoId),
                                         !.created_subnets = created,
                                         !.created_by_key = keys_of(created)]
                IN  IF is_terminal(item) THEN Return(w, rec)
                    ELSE /\ wk' = [wk EXCEPT ![w] = [rec EXCEPT !.pc = "mark"]]
                         /\ UNCHANGED queue
    /\ UNCHANGED <<table, sent, clock, nextUuid, api, lockWins, ec2, deliveries>>

\* lines 95-104: the first store write of handle_request: FAILED (and a plain
\* return) when the subnet count exceeds the maximum, else IN_PROGRESS
hr_mark(w) ==
    /\ wk[w].pc = "mark"
    /\ IF Len(subnets_req(wk[w])) > MAX_SUBNETS
       THEN /\ \E t \in clock..MaxClock :
                 /\ clock' = t
                 /\ table' = _update_fields(table, wk[w].request_id, t,
                                [status |-> "FAILED", error |-> <<"Too many subnets">>])
            /\ Return(w, wk[w])
       ELSE /\ \E t \in clock..MaxClock :
                 /\ clock' = t
                 /\ table' = _update_fields(table, wk[w].request_id, t,
                                [status |-> "IN_PROGRESS"])
            /\ wk' = [wk EXCEPT ![w] = IF needs_vpc(wk[w].vpc_id)
                                        THEN [wk[w] EXCEPT !.pc = "create_vpc"]
                                        ELSE Advance(wk[w], 1)]
            /\ UNCHANGED queue
    /\ UNCHANGED <<sent, nextUuid, api, lockWins, ec2, deliveries>>

\* history: the external calls this handle_request has attempted
Call(rec, op, arg) == [rec EXCEPT !.calls = Append(@, [op |-> op, arg |-> arg])]

\* line 149: ClientError is caught by the handler; any other exception type
\* (a connection or timeout error of the client library) leaves handle_request
Fail(w, rec, op, o) ==
    IF o = "ClientError"
    THEN /\ wk' = [wk EXCEPT ![w] = [rec EXCEPT !.pc = "except",
                                               !.error = <<"ClientError", op>>]]
         /\ UNCHANGED queue
    ELSE Raise(w, rec)

\* lines 108-110: ec2.create_vpc
hr_create_vpc(w) ==
    /\ wk[w].pc = "create_vpc"
    /\ \E o \in Outcomes :
         LET rec == Call(wk[w], "create_vpc", 0) IN
         IF o = "ok"
         THEN /\ ec2' = [ec2 EXCEPT !.vpcs = @ \cup
                           {[vpc_id |-> NewVpcId, cidr |-> vpc_req(rec).cidr,
                             request_id |-> rec.request_id]}]
              /\ wk' = [wk EXCEPT ![w] = [rec EXCEPT !.vpc_id = NewVpcId, !.pc = "tag_vpc"]]
              /\ UNCHANGED queue
         ELSE Fail(w, rec, "create_vpc", o) /\ UNCHANGED ec2
    /\ UNCHANGED <<table, sent, clock, nextUuid, api, lockWins, deliveries>>

\* line 111: _tag([vpc_id], request_id)
hr_tag_vpc(w) ==
    /\ wk[w].pc = "tag_vpc"
    /\ \E o \in Outcomes :
         LET rec == Call(wk[w], "create_tags", 0) IN
         IF o = "ok"
         THEN wk' = [wk EXCEPT ![w] = [rec EXCEPT !.pc = "wait_vpc"]] /\ UNCHANGED queue
         ELSE Fail(w, rec, "create_tags", o)
    /\ UNCHANGED <<table, sent, clock, nextUuid, api, lockWins, ec2, deliveries>>

\* lines 75-82, 112: poll describe_vpcs until available; a timeout is silent
hr_wait_vpc(w) ==
    /\ wk[w].pc = "wait_vpc"
    /\ \E o \in Outcomes \cup {"timeout"} :
         LET rec == Call(wk[w], "describe_vpcs", 0) IN
         IF o \in {"ok", "timeout"}
         THEN wk' = [wk EXCEPT ![w] = [rec EXCEPT !.pc = "ckpt_vpc"]] /\ UNCHANGED queue
         ELSE Fail(w, rec, "describe_vpcs", o)
    /\ UNCHANGED <<table, sent, clock, nextUuid, api, lockWins, ec2, deliveries>>

\* lines 113-118: checkpoint the network
hr_ckpt_vpc(w) ==
    /\ wk[w].pc = "ckpt_vpc"
    /\ LET result == [vpc_id |-> wk[w].vpc_id, vpc_cidr |-> vpc_req(wk[w]).cidr,
                      subnets |-> wk[w].created_subnets] @@ wk[w].current_result
       IN  /\ \E t \in clock..MaxClock :
                /\ clock' = t
                /\ table' = _update_fields(table, wk[w].request_id, t, [result |-> result])
           /\ wk' = [wk EXCEPT ![w] = Advance([wk[w] EXCEPT !.current_result = result], 1)]
    /\ UNCHANGED <<queue, sent, nextUuid, api, lockWins, ec2, deliveries>>

\* lines 123-128: ec2.create_subnet
hr_create_subnet(w) ==
    /\ wk[w].pc = "create_subnet"
    /\ LET s == subnets_req(wk[w])[wk[w].i] IN
       \E o \in Outcomes :
         /\ o = "ok" => ~subnet_conflict(wk[w].vpc_id, s.cidr)
         /\ LET rec == Call(wk[w], "create_subnet", wk[w].i) IN
            IF o = "ok"
            THEN /\ ec2' = [ec2 EXCEPT !.subnets = @ \cup
                              {[subnet_id |-> NewSubnetId, vpc_id |-> rec.vpc_id,
                                cidr |-> s.cidr, az |-> s.az,
                                request_id |-> rec.request_id]}]
                 /\ wk' = [wk EXCEPT ![w] = [rec EXCEPT !.subnet_id = NewSubnetId,
                                                        !.pc = "tag_subnet"]]
                 /\ UNCHANGED queue
            ELSE Fail(w, rec, "create_subnet", o) /\ UNCHANGED ec2
    /\ UNCHANGED <<table, sent, clock, nextUuid, api, lockWins, deliveries>>

\* line 129: _tag([subnet_id], request_id)
hr_tag_subnet(w) ==
    /\ wk[w].pc = "tag_subnet"
    /\ \E o \in Outcomes :
         LET rec == Call(wk[w], "create_tags", 0) IN
         IF o = "ok"
         THEN /\ wk' = [wk EXCEPT ![w] =
                          [rec EXCEPT !.pc = IF Has(subnets_req(rec)[rec.i], "name")
                                             THEN "name_subnet" ELSE "ckpt_subnet"]]
              /\ UNCHANGED queue
         ELSE Fail(w, rec, "create_tags", o)
    /\ UNCHANGED <<table, sent, clock, nextUuid, api, lockWins, ec2, deliveries>>

\* lines 131-135: the optional SubnetName tag
hr_name_subnet(w) ==
    /\ wk[w].pc = "name_subnet"
    /\ \E o \in Outcomes :
         LET rec == Call(wk[w], "create_tags", 0) IN
         IF o = "ok"
         THEN wk' = [wk EXCEPT ![w] = [rec EXCEPT !.pc = "ckpt_subnet"]] /\ UNCHANGED queue
         ELSE Fail(w, rec, "create_tags", o)
    /\ UNCHANGED <<table, sent, clock, nextUuid, api, lockWins, ec2, deliveries>>

CreatedSubnet(subnet_id, s) ==
    [subnet_id |-> subnet_id, cidr |-> s.cidr, az |-> s.az] @@ Pick(s, {"name"})

\* lines 137-145: record the subnet and checkpoint
hr_ckpt_subnet(w) ==
    /\ wk[w].pc = "ckpt_subnet"
    /\ LET s == subnets_req(wk[w])[wk[w].i]
           created == Append(wk[w].created_subnets, CreatedSubnet(wk[w].subnet_id, s))
           result == [subnets |-> created] @@ wk[w].current_result
           rec == [wk[w] EXCEPT !.created_subnets = created,
                                !.created_by_key = @ \cup {KeyOf(s)},
                                !.current_result = result]
       IN  /\ \E t \in clock..MaxClock :
                /\ clock' = t
                /\ table' = _update_fields(table, rec.request_id, t, [result |-> result])
           /\ wk' = [wk EXCEPT ![w] = Advance(rec, rec.i + 1)]
    /\ UNCHANGED <<queue, sent, nextUuid, api, lockWins, ec2, deliveries>>

\* line 147: CREATED with the final result
hr_final(w) ==
    /\ wk[w].pc = "final"
    /\ \E t \in clock..MaxClock :
         /\ clock' = t
         /\ table' = _update_fields(table, wk[w].request_id, t,
                        [status |-> "CREATED", result |-> wk[w].current_result])
    /\ Return(w, wk[w])
    /\ UNCHANGED <<sent, nextUuid, api, lockWins, ec2, deliveries>>

\* lines 149-151: FAILED with the error text, then re-raise
hr_except(w) ==
    /\ wk[w].pc = "except"
    /\ \E t \in clock..MaxClock :
         /\ clock' = t
         /\ table' = _update_fields(table, wk[w].request_id, t,
                        [status |-> "FAILED", error |-> wk[w].error])
    /\ Raise(w, wk[w])
    /\ UNCHANGED <<sent, nextUuid, api, lockWins, ec2, deliveries>>

\* the invocation is killed between two steps (timeout, lost host): nothing
\* is written and the batch stays on the queue
wk_crash(w) ==
    /\ wk[w].pc \notin {"idle"}
    /\ wk' = [wk EXCEPT ![w] = [WkIdle EXCEPT !.hr = "crashed"]]
    /\ UNCHANGED <<table, queue, sent, clock, nextUuid, api, lockWins, ec2, deliveries>>

handle_request(w) ==
    \/ hr_load(w)
    \/ hr_mark(w)
    \/ hr_create_vpc(w)
    \/ hr_tag_vpc(w)
    \/ hr_wait_vpc(w)
    \/ hr_ckpt_vpc(w)
    \/ hr_create_subnet(w)
    \/ hr_tag_subnet(w)
    \/ hr_name_subnet(w)
    \/ hr_ckpt_subnet(w)
    \/ hr_final(w)
    \/ hr_except(w)

\* -------------------------------------------------------- handle_get_vpcs
\* json.dumps of a LastEvaluatedKey {"request_id": key}, as a piece sequence
json_dumps(lek) == <<"{", "request_id", ":">> \o lek.request_id \o <<"}">>

json_loads_ok(raw) ==
    Len(raw) >= 4 /\ SubSeq(raw, 1, 3) = <<"{", "request_id", ":">> /\ raw[Len(raw)] = "}"

json_loads(raw) == [request_id |-> SubSeq(raw, 4, Len(raw) - 1)]

\* lines 150-152: base64 of the JSON text
_encode_next_token(lek) == <<"b64">> \o json_dumps(lek)

\* lines 155-157: fails on text that is not base64 of a JSON object
_decode_next_token_ok(token) ==
    Len(token) >= 1 /\ token[1] = "b64" /\ json_loads_ok(Tail(token))

_decode_next_token(token) == json_loads(Tail(token))

\* int(text) for the query strings used here; other text raises
IntOf == ("0" :> 0) @@ ("1" :> 1) @@ ("2" :> 2) @@ ("99" :> 99)

Min(a, b) == IF a <= b THEN a ELSE b

Max(a, b) == IF a >= b THEN a ELSE b

\* lines 239-244: limit from the query string, default 20, clamped to 1..50
limit_of(qsp) ==
    LET text == Get(qsp, "limit", "20")
        limit == IF text = "20" THEN 20 ELSE IF text \in DOMAIN IntOf THEN IntOf[text] ELSE 20
    IN  Max(1, Min(50, limit))

\* a filter that lets every item through
filter_matches_any(item) == TRUE

\* lines 259-261: attribute_exists(type) AND type = VPC_REQUEST
filter_matches(item) == Has(item, "type") /\ item.type = "VPC_REQUEST"

\* table.scan(Limit, FilterExpression, ExclusiveStartKey): evaluates at most
\* Limit items after the start key in scan order, returns those that pass the
\* filter, and a LastEvaluatedKey when it stopped on the limit
scan(t, order, Limit, eks) ==
    LET n == Len(order)
        start == IF eks = EmptyDict THEN 0
                 ELSE CHOOSE j \in 1..n : order[j] = eks.request_id
        stop == Min(start + Limit, n)
        evaluated == SubSeq(order, start + 1, stop)
        Passes(k) == filter_matches(t[k])
        passed == SelectSeq(evaluated, Passes)
        Items == [j \in 1..Len(passed) |-> [request_id |-> passed[j]] @@ t[passed[j]]]
    IN  IF stop - start = Limit
        THEN [Items |-> Items, LastEvaluatedKey |-> [request_id |-> order[stop]]]
        ELSE [Items |-> Items]

\* lines 236-274: the response to a list-requests call with query string qsp
get_vpcs(qsp) ==
    LET next_token == Get(qsp, "next_token", <<>>) IN
    IF next_token # <<>> /\ ~_decode_next_token_ok(next_token)
    THEN _resp(400, [message |-> [kind |-> "invalid_next_token"]])
    ELSE LET eks == IF next_token # <<>> THEN _decode_next_token(next_token) ELSE EmptyDict
             out == scan(table, scanOrder, limit_of(qsp), eks)
         IN  _resp(200, [items |-> out.Items]
                        @@ (IF Has(out, "LastEvaluatedKey")
                            THEN [next_token |-> _encode_next_token(out.LastEvaluatedKey)]
                            ELSE EmptyDict))

LstIdle == [pc |-> "idle", qsp |-> EmptyDict, pages |-> <<>>, status |-> 0]

\* the client calls list-requests with its query string, keeps the page and
\* follows the returned next_token, until a response carries none
handle_get_vpcs ==
    /\ lst.pc = "paging"
    /\ LET r == get_vpcs(lst.qsp) IN
       lst' = IF r.statusCode = 200 /\ Has(r.body, "next_token")
              THEN [lst EXCEPT !.pages = Append(@, r.body.items), !.status = 200,
                               !.qsp = [next_token |-> r.body.next_token] @@ @]
              ELSE [lst EXCEPT !.pages = IF r.statusCode = 200
                                         THEN Append(@, r.body.items) ELSE @,
                               !.status = r.statusCode, !.pc = "done"]
    /\ UNCHANGED scanOrder
    /\ UNCHANGED coreVars

\* -------------------------------------------------------------- the system
Init ==
    /\ table = EmptyDict
    /\ queue = {}
    /\ sent = 0
    /\ clock = 0
    /\ nextUuid = 0
    /\ api = [c \in Callers |-> ApiIdle]
    /\ lockWins = {}
    /\ wk = [w \in Workers |-> WkIdle]
    /\ ec2 = NoEc2
    /\ deliveries = 0
    /\ scanOrder = <<>>
    /\ lst = LstIdle
    /\ val = ValIdle

lambda_handler(w) == wk_deliver(w) \/ handle_request(w) \/ wk_crash(w)

\* Intake with concurrent callers, the queue consumed by one worker instance
\* at a time.
Next ==
    /\ (\E c \in Callers : handle_post_vpcs(c)) \/ lambda_handler(1)
    /\ UNCHANGED sideVars

Spec == Init /\ [][Next]_vars

\* The same system under fair scheduling: an intake invocation that is not
\* killed takes its next step, the queue goes on delivering and a worker
\* invocation that is not killed takes its next step.
post_step(c) ==
    /\ \/ post_begin(c)
       \/ post_put_lock(c)
       \/ post_get_lock(c)
       \/ post_get_existing(c)
       \/ post_put_request(c)
       \/ post_send(c)
    /\ UNCHANGED sideVars

worker_step(w) == (wk_deliver(w) \/ handle_request(w)) /\ UNCHANGED sideVars

Fairness == (\A c \in Callers : WF_vars(post_step(c))) /\ WF_vars(worker_step(1))

SpecFair == Init /\ [][Next]_vars /\ Fairness

\* The worker alone, with overlapping invocations: the state after one
\* accepted create-request (lock row, request row, message).
InitWorker ==
    /\ clock = 0
    /\ nextUuid = 1
    /\ sent = 1
    /\ \E p \in {PayloadA, PayloadB} :
         api = [c \in Callers |->
                  IF c = 1
                  THEN [ApiIdle EXCEPT !.pc = "done", !.event = Event(<<"a">>, <<"c">>, p),
                                       !.request_id = Uuid(1), !.ttl_epoch = TTL_SECONDS,
                                       !.resp = _resp(202, [request_id |-> Uuid(1),
                                                            status |-> "QUEUED"])]
                  ELSE ApiIdle]
    /\ table = Put(Put(EmptyDict, LockKeyOf(1), LockItem(1)), Uuid(1), RequestItem(1))
    /\ lockWins = {[caller |-> 1, lock_key |-> LockKeyOf(1), item |-> LockItem(1)]}
    /\ queue = {[mid |-> 1, request_id |-> Uuid(1)]}
    /\ wk = [w \in Workers |-> WkIdle]
    /\ ec2 = NoEc2
    /\ deliveries = 0
    /\ scanOrder = <<>>
    /\ lst = LstIdle
    /\ val = ValIdle

NextWorker ==
    /\ \E w \in Workers : lambda_handler(w)
    /\ UNCHANGED sideVars

SpecWorker == InitWorker /\ [][NextWorker]_vars

\* Listing with no concurrent writes: the table as some create-requests left it
\* (a call that died after its lock write leaves a lock row alone), walked in
\* any fixed scan order by a client with any limit.
Perms(S) == {p \in [1..Cardinality(S) -> S] : \A j, k \in DOMAIN p : p[j] = p[k] => j = k}

ListQueries ==
    {EmptyDict, [limit |-> "1"], [limit |-> "2"], [limit |-> "0"], [limit |-> "99"],
     [limit |-> "abc"], [limit |-> "1", next_token |-> <<"garbage">>]}

InitList ==
    /\ clock = 0
    /\ nextUuid = NumCallers
    /\ \E f \in [Callers -> {"start", "crashed", "done"}] :
         /\ api = [c \in Callers |->
                    IF f[c] = "start" THEN ApiIdle
                    ELSE [ApiIdle EXCEPT !.pc = f[c],
                                         !.event = Event(<<"a">>, <<"t", ToString(c)>>, PayloadB),
                                         !.request_id = Uuid(c), !.ttl_epoch = TTL_SECONDS,
                                         !.resp = IF f[c] = "done"
                                                  THEN _resp(202, [request_id |-> Uuid(c),
                                                                   status |-> "QUEUED"])
                                                  ELSE NoResp]]
         /\ table = [k \in {LockKeyOf(c) : c \in {d \in Callers : f[d] # "start"}}
                            \cup {Uuid(c) : c \in {d \in Callers : f[d] = "done"}} |->
                       IF \E c \in Callers : k = LockKeyOf(c)
                       THEN LockItem(CHOOSE c \in Callers : k = LockKeyOf(c))
                       ELSE RequestItem(CHOOSE c \in Callers : k = Uuid(c))]
         /\ lockWins = {[caller |-> c, lock_key |-> LockKeyOf(c), item |-> LockItem(c)] :
                           c \in {d \in Callers : f[d] # "start"}}
         /\ queue = {[mid |-> c, request_id |-> Uuid(c)] : c \in {d \in Callers : f[d] = "done"}}
         /\ sent = Cardinality({d \in Callers : f[d] = "done"})
    /\ wk = [w \in Workers |-> WkIdle]
    /\ ec2 = NoEc2
    /\ deliveries = 0
    /\ scanOrder \in Perms(DOMAIN table)
    /\ \E q \in ListQueries : lst = [LstIdle EXCEPT !.pc = "paging", !.qsp = q]
    /\ val = ValIdle

NextList == handle_get_vpcs /\ UNCHANGED val

SpecList == InitList /\ [][NextList]_vars

\* Validation alone: any network and any list of 1..MaxInputSubnets subnets
\* of one, two or four addresses that start in the first six addresses.
InputCidrs ==
    {c \in {Cidr(a, l) : a \in 0..5, l \in (AddrBits - 2)..AddrBits} :
        c.addr % Pow2(AddrBits - c.len) = 0}

InputSubnets ==
    {Subnet(c, "zone-a") : c \in InputCidrs}
        \cup {NamedSubnet(Cidr(0, AddrBits), "zone-b", "web"),
              [cidr |-> LowHalf],
              Subnet(Cidr(1, AddrBits - 1), "zone-a"),
              [cidr |-> HighHalf, az |-> "zone-a", tier |-> "private"]}

InputVpcs == {Cidr(0, AddrBits - 3), Net4}

InputPayloads ==
    {[vpc |-> [cidr |-> v], subnets |-> ss] :
        v \in InputVpcs,
        ss \in UNION {[1..n -> InputSubnets] : n \in 1..MaxInputSubnets}}

InitValidate ==
    /\ table = EmptyDict
    /\ queue = {}
    /\ sent = 0
    /\ clock = 0
    /\ nextUuid = 0
    /\ api = [c \in Callers |-> ApiIdle]
    /\ lockWins = {}
    /\ wk = [w \in Workers |-> WkIdle]
    /\ ec2 = NoEc2
    /\ deliveries = 0
    /\ scanOrder = <<>>
    /\ lst = LstIdle
    /\ \E p \in InputPayloads : val = [ValIdle EXCEPT !.pc = "ready", !.payload = p]

NextValidate == validate

SpecValidate == InitValidate /\ [][NextValidate]_vars

\* ------------------------------------------------------------------ views
IsLock(k) == Get(table[k], "type", "") = "IDEMPOTENCY_LOCK"

IsRequest(k) == Get(table[k], "type", "") = "VPC_REQUEST"

LockRows == {k \in DOMAIN table : IsLock(k)}

RequestRows == {k \in DOMAIN table : IsRequest(k)}

\* the request rows created under lock key k
RequestsOf(k) ==
    {r \in RequestRows : _lock_pk(table[r].created_by, table[r].idempotency_key) = k}

\* the caller's call got as far as the lock write
Accepted(c) == api[c].pc \notin {"start"} /\ api[c].resp.statusCode # 400

\* the caller's conditional lock write has been attempted and answered
PastLock(c) ==
    \/ api[c].pc \in {"get_lock", "get_existing", "put_request", "send"}
    \/ api[c].pc = "done" /\ api[c].resp.statusCode # 400

Returned(c) == api[c].pc = "done"

\* ------------------------------------------------------------------- C1
\* C1: among all create-request calls that derive one lock key exactly one
\* conditional lock write succeeds; every lock row holds the owner request id
\* written by that one write, and the row still equals the item as written
\* (it is never updated or overwritten), whatever ran since.
C1_LockWrittenOnce ==
    /\ \A x, y \in lockWins : x.lock_key = y.lock_key => x = y
    /\ \A c \in Callers : PastLock(c) => \E x \in lockWins : x.lock_key = LockKeyOf(c)
    /\ LockRows = {x.lock_key : x \in lockWins}
    /\ \A x \in lockWins : table[x.lock_key] = x.item

\* two calls with the same (identity, token) are past the lock write, one of
\* them lost, and the worker has since written to the owner's request row
C1_Witness ==
    \E c, d \in Callers :
        /\ c # d
        /\ api[c].event = api[d].event
        /\ PastLock(c) /\ PastLock(d)
        /\ \E x \in lockWins :
             /\ x.caller = c
             /\ x.lock_key = LockKeyOf(d)
             /\ Has(table, x.item.lock_request_id)
             /\ table[x.item.lock_request_id].status = "CREATED"

\* ------------------------------------------------------------------- C2
\* the callers that entered the lock protocol under lock key k
CallersOf(k) == {c \in Callers : Accepted(c) /\ LockKeyOf(c) = k}

\* state part of C2: when two or more calls with the same (identity, token)
\* and a valid payload have all returned, exactly one request row exists for
\* them and every one of them was answered 202 with that row's request id.
C2_OneRequest ==
    \A c \in Callers :
        LET group == CallersOf(LockKeyOf(c)) IN
        (Accepted(c) /\ Cardinality(group) >= 2 /\ \A d \in group : Returned(d))
            => /\ Cardinality(RequestsOf(LockKeyOf(c))) = 1
               /\ \A d \in group :
                    /\ api[d].resp.statusCode = 202
                    /\ api[d].resp.body.request_id \in RequestsOf(LockKeyOf(c))

\* step part of C2: a loser that reads the owner's request row before it is
\* visible is answered 202 with the owner's request id and status QUEUED.
C2_LoserQueued ==
    \A c \in Callers :
        (/\ api[c].pc = "get_existing"
         /\ api'[c].pc = "done"
         /\ ~Has(table, api[c].existing_request_id))
            => api'[c].resp = _resp(202, [request_id |-> table[LockKeyOf(c)].lock_request_id,
                                          status |-> "QUEUED"])

\* C2: concurrent create-request calls with the same (identity, token) and a
\* valid payload that have all returned left exactly one request row and were
\* all answered 202 with its request id; a loser that finds the owner's row
\* not yet visible is answered with status QUEUED.
C2_ConcurrentCreate == []C2_OneRequest /\ [][C2_LoserQueued]_vars

\* two calls with the same event have returned, the loser having been
\* answered QUEUED before the winner's request row was written
C2_Witness ==
    \E c, d \in Callers :
        /\ c # d
        /\ api[c].event = api[d].event
        /\ Returned(c) /\ Returned(d)
        /\ api[c].resp.statusCode = 202 /\ api[d].resp.statusCode = 202
        /\ \E x \in lockWins : x.caller = c /\ x.lock_key = LockKeyOf(d)
        /\ api[d].resp = _resp(202, [request_id |-> api[c].request_id, status |-> "QUEUED"])
        /\ api[d].existing_request_id = api[c].request_id
        /\ sent = 1 /\ deliveries = 0

\* ------------------------------------------------------------------- C3
Running(w) == wk[w].pc \notin {"idle", "load"}

SpecSubnets(r) == table[r].request.subnets

\* C3: for one request id at most one network exists at the external API,
\* and at most one subnet per spec subnet (cidr, az), whatever crashes and
\* redeliveries happened.
C3_NeverRecreated ==
    \A r \in RequestRows :
        /\ Cardinality({v \in ec2.vpcs : v.request_id = r}) <= 1
        /\ \A j \in 1..Len(SpecSubnets(r)) :
             Cardinality({x \in ec2.subnets :
                             /\ x.request_id = r
                             /\ x.cidr = SpecSubnets(r)[j].cidr
                             /\ x.az = SpecSubnets(r)[j].az}) <= 1

\* ------------------------------------------------------------------- C4
IsCreateSubnet(x) == x.op = "create_subnet"

\* the spec positions handle_request has called create_subnet for, in order
SubnetCalls(w) == SelectSeq(wk[w].calls, IsCreateSubnet)

\* the spec positions whose (cidr, az) the recovered result does not record
Missing(w) ==
    {j \in 1..Len(subnets_req(wk[w])) :
        \A e \in Range(Get(wk[w].recovered, "subnets", <<>>)) :
            <<e.cidr, e.az>> # <<subnets_req(wk[w])[j].cidr, subnets_req(wk[w])[j].az>>}

UniqueByKey(subnets) ==
    \A j, k \in 1..Len(subnets) :
        (subnets[j].cidr = subnets[k].cidr /\ subnets[j].az = subnets[k].az) => j = k

Resumed(w) == Running(w) /\ Has(wk[w].recovered, "vpc_id")

\* state part of C4: an invocation that resumed from a result recording the
\* network never calls create_vpc, and its create_subnet calls so far are the
\* first missing spec subnets in spec order; when the loop is over they are all
\* of them, and the result in hand holds one entry per spec subnet.
C4_ResumeCalls ==
    \A w \in Workers :
        Resumed(w) =>
            /\ \A j \in 1..Len(wk[w].calls) : wk[w].calls[j].op # "create_vpc"
            /\ \A j \in 1..Len(SubnetCalls(w)) :
                 /\ SubnetCalls(w)[j].arg \in Missing(w)
                 /\ Cardinality({m \in Missing(w) : m < SubnetCalls(w)[j].arg}) = j - 1
            /\ wk[w].pc = "final" =>
                 /\ Len(SubnetCalls(w)) = Cardinality(Missing(w))
                 /\ Len(wk[w].current_result.subnets) = Len(subnets_req(wk[w]))
                 /\ UniqueByKey(wk[w].current_result.subnets)

\* step part of C4: the step that ends such an invocation normally persists
\* CREATED with exactly one result entry per spec subnet, unique by (cidr, az).
C4_EndsCreated ==
    \A w \in Workers :
        (Resumed(w) /\ wk'[w].hr = "returned")
            => LET item == table'[wk[w].request_id] IN
               /\ item.status = "CREATED"
               /\ item.result.vpc_id = wk[w].recovered.vpc_id
               /\ Len(item.result.subnets) = Len(subnets_req(wk[w]))
               /\ UniqueByKey(item.result.subnets)

\* C4: an invocation resumed from a result recording the network and k of the
\* n spec subnets never calls create_vpc, calls create_subnet exactly for the
\* unrecorded spec subnets in spec order, and ends by persisting CREATED with n
\* result entries, unique by (cidr, az).
C4_Resume == []C4_ResumeCalls /\ [][C4_EndsCreated]_vars

\* an invocation resumed from the network and one of two subnets is about to
\* write CREATED, having called create_subnet for the second subnet only
C4_Witness ==
    \E w \in Workers :
        /\ Resumed(w)
        /\ wk[w].pc = "final"
        /\ Len(subnets_req(wk[w])) = 2
        /\ Len(wk[w].recovered.subnets) = 1
        /\ Len(SubnetCalls(w)) = 1
        /\ SubnetCalls(w)[1].arg = 2

\* ------------------------------------------------------------------- C5
Forward(from, to) ==
    \/ from = to
    \/ from = "QUEUED" /\ to = "IN_PROGRESS"
    \/ from = "IN_PROGRESS" /\ to \in Terminal

\* C5: every store write moves the state of a request forward along
\* QUEUED -> IN_PROGRESS -> {CREATED, FAILED}; a CREATED or FAILED request
\* keeps its state for ever.
C5_ForwardOnly ==
    [][\A r \in RequestRows : Forward(table[r].status, table'[r].status)]_vars

\* ------------------------------------------------------------------- C6
\* C6: the step of handle_request that loads a request already CREATED or
\* FAILED ends that handle_request by a plain return, and changes neither the
\* table (status, result, error_message, updated_at) nor the EC2 account.
C6_TerminalNoOp ==
    [][\A w \in Workers :
         (/\ wk[w].pc = "load"
          /\ wk'[w] # wk[w]
          /\ wk'[w].hr # "crashed"
          /\ Has(table, wk[w].request_id)
          /\ table[wk[w].request_id].status \in {"CREATED", "FAILED"})
            => /\ wk'[w].hr = "returned"
               /\ wk'[w].pc \in {"idle", "load"}
               /\ table' = table
               /\ ec2' = ec2]_vars

\* a second delivery, with no invocation overlapping the first, has returned
\* on a request the first one left FAILED
C6_Witness ==
    /\ deliveries = 2
    /\ wk[1].hr = "returned" /\ wk[1].pc = "idle"
    /\ \A w \in Workers : w # 1 => wk[w].hr = "none" /\ wk[w].pc = "idle"
    /\ \E r \in RequestRows : table[r].status = "FAILED" /\ Has(table[r], "result")

\* ------------------------------------------------------------------- C7
OwnerOf(c) == table[LockKeyOf(c)].lock_request_id

SameAttr(body, item, attr) ==
    /\ Has(body, attr) <=> Has(item, attr)
    /\ Has(item, attr) => body[attr] = item[attr]

\* C7: every step of the replay path (the refused lock write, the read of the
\* lock row, the read of the request row) leaves the table and the queue as
\* they are, and the replay of a request that is CREATED or FAILED answers 202
\* with the status, result and error_message exactly as persisted.
C7_ReplayOfTerminal ==
    [][\A c \in Callers :
         /\ (\/ api[c].pc = "put_lock" /\ api'[c].pc = "get_lock"
             \/ api[c].pc \in {"get_lock", "get_existing"} /\ api'[c] # api[c])
                => table' = table /\ queue' = queue /\ sent' = sent
         /\ (/\ api[c].pc = "get_existing"
             /\ api'[c].pc = "done"
             /\ Has(table, OwnerOf(c))
             /\ table[OwnerOf(c)].status \in {"CREATED", "FAILED"})
                => /\ api'[c].resp.statusCode = 202
                   /\ api'[c].resp.body.request_id = OwnerOf(c)
                   /\ api'[c].resp.body.status = table[OwnerOf(c)].status
                   /\ SameAttr(api'[c].resp.body, table[OwnerOf(c)], "result")
                   /\ SameAttr(api'[c].resp.body, table[OwnerOf(c)], "error_message")]_vars

\* a replay has been answered with a FAILED request's status, checkpointed
\* result and error message
C7_Witness ==
    \E c \in Callers :
        /\ Returned(c)
        /\ \A x \in lockWins : x.caller # c
        /\ api[c].resp.statusCode = 202
        /\ api[c].resp.body.status = "FAILED"
        /\ Has(api[c].resp.body, "result")
        /\ Has(api[c].resp.body, "error_message")
        /\ table[api[c].resp.body.request_id].status = "FAILED"

\* ------------------------------------------------------------------- C8
EventKey(e) == _lock_pk(e.created_by, e.idem)

\* C8 as claimed: a create-request that arrives when its (identity, token)
\* already owns a lock is never answered 400, whatever body it carries.
C8_ReplayWhateverBody ==
    [][\A c \in Callers :
         (/\ api[c].pc = "start"
          /\ api'[c].pc # "start"
          /\ api'[c].event.idem # NoHeader
          /\ Has(table, EventKey(api'[c].event)))
            => api'[c].resp.statusCode # 400]_vars

\* C8 as amended: a returned create-request whose body passes validation is
\* answered 202 with the request id of its lock row's owner, whether or not
\* its body is the owner's; one whose body fails validation is answered 400,
\* lock or no lock; and no lock key ever has a second request row.
C8_ReplayOfValidBody ==
    /\ \A c \in Callers :
         Returned(c) =>
            IF api[c].event.idem = NoHeader \/ ~_validate_request(api[c].event.payload).ok
            THEN api[c].resp.statusCode = 400
            ELSE /\ api[c].resp.statusCode = 202
                 /\ Has(table, LockKeyOf(c))
                 /\ api[c].resp.body.request_id = table[LockKeyOf(c)].lock_request_id
    /\ \A k \in LockRows : RequestsOf(k) \subseteq {table[k].lock_request_id}

\* a replay carrying another valid body than the owner's has been answered
\* 202 with the owner's request id, and the owner's spec is the only one stored
C8_Witness ==
    \E c, d \in Callers :
        /\ Returned(c) /\ Returned(d)
        /\ \E x \in lockWins : x.caller = c /\ x.lock_key = LockKeyOf(d)
        /\ api[c].event.payload = PayloadA
        /\ api[d].event.payload = PayloadB
        /\ api[d].resp.statusCode = 202
        /\ api[d].resp.body.request_id = api[c].request_id
        /\ table[api[c].request_id].request.subnets = PayloadA.subnets

\* ------------------------------------------------------------------- C9
ResultSubnets(item) == Get(Get(item, "result", EmptyDict), "subnets", <<>>)

Extends(old, new) == Len(old) <= Len(new) /\ \A j \in 1..Len(old) : new[j] = old[j]

\* C9: every store write to a request extends the persisted result.subnets
\* (no recorded entry dropped or replaced) and keeps it unique by (cidr, az).
C9_SubnetsOnlyGrow ==
    [][\A r \in RequestRows :
         /\ Extends(ResultSubnets(table[r]), ResultSubnets(table'[r]))
         /\ UniqueByKey(ResultSubnets(table'[r]))]_vars

\* ------------------------------------------------------------------ C10
\* C10: whenever handle_request is left by the failure of an external call,
\* the request is FAILED with an error message persisted and its
\* checkpointed result is what it was.
C10_FailureIsRecorded ==
    [][\A w \in Workers :
         (Running(w) /\ wk'[w].hr = "raised")
            => /\ table'[wk[w].request_id].status = "FAILED"
               /\ Has(table'[wk[w].request_id], "error_message")
               /\ SameAttr(table'[wk[w].request_id], table[wk[w].request_id], "result")]_vars

\* ------------------------------------------------------------------ C11
RECURSIVE Concat(_)
Concat(pages) == IF pages = <<>> THEN <<>> ELSE Head(pages) \o Concat(Tail(pages))

\* the items the client has been given so far, in the order it got them
Visited == Concat(lst.pages)

\* C11: with the table unchanged, a client that calls list-requests with
\* limit=1 and follows every returned cursor is never given a lock row nor the
\* same record twice, gets at most one item per page, and when a response
\* carries no cursor it has been given every request row, each exactly as
\* stored.
C11_ListVisitsEachOnce ==
    (Get(lst.qsp, "limit", "") = "1" /\ lst.status # 400) =>
        /\ \A j \in 1..Len(Visited) :
             /\ Visited[j].request_id \in RequestRows
             /\ Visited[j] = [request_id |-> Visited[j].request_id] @@ table[Visited[j].request_id]
        /\ \A j, k \in 1..Len(Visited) : Visited[j].request_id = Visited[k].request_id => j = k
        /\ \A j \in 1..Len(lst.pages) : Len(lst.pages[j]) <= 1
        /\ lst.pc = "done" => {Visited[j].request_id : j \in 1..Len(Visited)} = RequestRows

\* a limit=1 traversal of a table holding two request rows and their two lock
\* rows has ended: both requests were listed, and some page came back empty
\* because the one item it evaluated was a lock row
C11_Witness ==
    /\ Get(lst.qsp, "limit", "") = "1"
    /\ lst.pc = "done" /\ lst.status = 200
    /\ Cardinality(RequestRows) = 2 /\ Cardinality(LockRows) = 2
    /\ Len(Visited) = 2
    /\ \E j \in 1..(Len(lst.pages) - 1) : lst.pages[j] = <<>>

\* ------------------------------------------------------------------ C12
\* the addresses a CIDR covers
Addresses(c) ==
    {x \in 0..(Pow2(AddrBits) - 1) : c.addr <= x /\ x < c.addr + Pow2(AddrBits - c.len)}

InSubnets == val.payload.subnets

\* the payload is a network CIDR and well-formed subnets
WellFormed ==
    /\ Addresses(val.payload.vpc.cidr) # {}
    /\ \A j \in 1..Len(InSubnets) :
         /\ Has(InSubnets[j], "az")
         /\ InSubnets[j].cidr.addr % Pow2(AddrBits - InSubnets[j].cidr.len) = 0

Contained(j) == Addresses(InSubnets[j].cidr) \subseteq Addresses(val.payload.vpc.cidr)

Overlap(j, k) == Addresses(InSubnets[j].cidr) \cap Addresses(InSubnets[k].cidr) # {}

OverlappingPairs == {p \in (1..Len(InSubnets)) \X (1..Len(InSubnets)) : p[1] < p[2] /\ Overlap(p[1], p[2])}

\* validation succeeds exactly on contained, pairwise disjoint subnets, and
\* then returns them in input order
C12_SucceedsExactly ==
    /\ val.result.ok <=> /\ \A j \in 1..Len(InSubnets) : Contained(j)
                          /\ OverlappingPairs = {}
    /\ val.result.ok =>
         /\ val.result.vpc_cidr = val.payload.vpc.cidr
         /\ Len(val.result.subnets) = Len(InSubnets)
         /\ \A j \in 1..Len(InSubnets) :
              /\ val.result.subnets[j].cidr = InSubnets[j].cidr
              /\ val.result.subnets[j].az = InSubnets[j].az
              /\ SameAttr(val.result.subnets[j], InSubnets[j], "name")

\* the error names the CIDR of a subnet that overlaps another
NamesOverlapping ==
    /\ ~val.result.ok
    /\ Has(val.result.error, "cidr")
    /\ \E p \in OverlappingPairs :
         val.result.error.cidr \in {InSubnets[p[1]].cidr, InSubnets[p[2]].cidr}

\* C12 as claimed: for a network and 1 to 10 well-formed subnets, validation
\* succeeds exactly when every subnet lies in the network and no two overlap,
\* returning the subnets in input order; whenever two subnets overlap, the
\* error names one of the two overlapping CIDRs.
C12_ValidationAsClaimed ==
    (val.pc = "done" /\ WellFormed) =>
        /\ C12_SucceedsExactly
        /\ OverlappingPairs # {} => NamesOverlapping

\* C12 as amended: the same, except that the error is promised to name the
\* overlapping CIDRs only when every subnet lies in the network: it then
\* names the first subnet in input order that overlaps an earlier one,
\* together with the earliest subnet it overlaps.
C12_Validation ==
    (val.pc = "done" /\ WellFormed) =>
        /\ C12_SucceedsExactly
        /\ (OverlappingPairs # {} /\ \A j \in 1..Len(InSubnets) : Contained(j)) =>
             /\ ~val.result.ok
             /\ val.result.error.kind = "overlaps"
             /\ \E p \in OverlappingPairs :
                  /\ val.result.error.cidr = InSubnets[p[2]].cidr
                  /\ val.result.error.prior = InSubnets[p[1]].cidr
                  /\ \A q \in OverlappingPairs :
                       p[2] < q[2] \/ (p[2] = q[2] /\ p[1] <= q[1])

\* three contained subnets were refused: the third overlaps the second but
\* not the first, and the error names the third and the second
C12_Witness ==
    /\ val.pc = "done" /\ WellFormed
    /\ Len(InSubnets) = 3
    /\ \A j \in 1..3 : Contained(j)
    /\ OverlappingPairs = {<<2, 3>>}
    /\ ~val.result.ok
    /\ val.result.error.cidr = InSubnets[3].cidr
    /\ val.result.error.prior = InSubnets[2].cidr

\* ------------------------------------------------------------------ C13
\* two invocations are handling request r at the same time
Overlapping(r) ==
    \E v, w \in Workers :
        v # w /\ Running(v) /\ Running(w) /\ wk[v].request_id = r /\ wk[w].request_id = r

\* state part of C13: while two invocations handle one request, at most one
\* network and at most one subnet per spec subnet exist for it.
C13_NothingTwice ==
    \A r \in RequestRows :
        Overlapping(r) =>
            /\ \A x, y \in ec2.vpcs : (x.request_id = r /\ y.request_id = r) => x = y
            /\ \A x, y \in ec2.subnets :
                 (x.request_id = r /\ y.request_id = r /\ x.cidr = y.cidr /\ x.az = y.az)
                    => x = y

\* step part of C13: a store write keeps the checkpointed network id and
\* every checkpointed subnet entry of the request.
C13_NoEntryLost ==
    \A r \in RequestRows :
        /\ Has(Get(table[r], "result", EmptyDict), "vpc_id") =>
              /\ Has(Get(table'[r], "result", EmptyDict), "vpc_id")
              /\ table'[r].result.vpc_id = table[r].result.vpc_id
        /\ Range(ResultSubnets(table[r])) \subseteq Range(ResultSubnets(table'[r]))

\* C13: when a message is delivered again while an earlier invocation for the
\* same request is still running, no network or subnet is created twice, and
\* no checkpointed result entry is lost to a write of the other invocation.
C13_SafelyReentrant == []C13_NothingTwice /\ [][C13_NoEntryLost]_vars

\* ------------------------------------------------------------------ C14
\* the invocation's external call for the subnet at position wk[w].i fails
FailsAtSubnet(w) ==
    /\ wk[w].pc \in {"create_subnet", "tag_subnet", "name_subnet"}
    /\ wk'[w].pc = "except" \/ wk'[w].hr = "raised"

PersistedKeys(r) == keys_of(ResultSubnets(table[r]))

Ends(w, how) == wk[w].pc # "idle" /\ wk'[w] # wk[w] /\ wk'[w].hr = how

\* C15: a handle_request that returns normally either found the request
\* already CREATED or FAILED (and wrote nothing) or leaves it CREATED; and
\* every step of an invocation that makes the request FAILED raises to the
\* queue layer.
C15_CompletesOrRaises ==
    [][\A w \in Workers :
         /\ Ends(w, "returned") =>
              \/ /\ wk[w].pc = "load"
                 /\ table[wk[w].request_id].status \in Terminal
                 /\ table' = table
              \/ table'[wk[w].request_id].status = "CREATED"
         /\ (/\ wk'[w] # wk[w]
             /\ wk[w].pc # "idle"
             /\ table[wk[w].request_id].status # "FAILED"
             /\ table'[wk[w].request_id].status = "FAILED")
                => wk'[w].hr = "raised"]_vars

\* one delivery ended by raising after it had made the request FAILED, and a
\* later one returned normally on the FAILED request
C15_Witness ==
    /\ deliveries = 2
    /\ \E r \in RequestRows : table[r].status = "FAILED" /\ Has(table[r], "error_message")
    /\ \E v, w \in Workers :
         /\ wk[v].hr = "raised" /\ wk[v].pc = "idle"
         /\ wk[w].hr = "returned" /\ wk[w].pc = "idle"

\* ------------------------------------------------------------------ C16
\* C16: the messages of a batch are handled independently: however the
\* handle_request of one message ends, by a return or by a raised failure,
\* the invocation goes on to handle the next message of the batch.
C16_BatchIndependent ==
    [][\A w \in Workers :
         (/\ wk[w].idx < Len(wk[w].records)
          /\ Ends(w, "returned") \/ Ends(w, "raised"))
            => /\ wk'[w].pc = "load"
               /\ wk'[w].idx = wk[w].idx + 1
               /\ wk'[w].request_id = wk[w].records[wk[w].idx + 1].request_id]_vars

\* ------------------------------------------------------------------ C17
WorkerAttrs == {"status", "result", "error_message", "updated_at"}

\* C17: no row is ever deleted; an existing row changes only when a running
\* handle_request for that very request row steps, and then only in status,
\* result, error_message and updated_at (request, created_by,
\* idempotency_key, created_at, ttl_epoch and type stay); lock rows and other
\* requests' rows never change; and rows are created by intake only.
C17_WorkerFrame ==
    [][/\ DOMAIN table \subseteq DOMAIN table'
       /\ \A k \in DOMAIN table :
            table'[k] # table[k] =>
                /\ IsRequest(k)
                /\ api' = api
                /\ \E w \in Workers :
                     wk[w].request_id = k /\ Running(w) /\ wk'[w] # wk[w]
                /\ \A a \in (DOMAIN table[k] \cup DOMAIN table'[k]) \ WorkerAttrs :
                     SameAttr(table'[k], table[k], a)
       /\ (DOMAIN table' # DOMAIN table) => (wk' = wk /\ api' # api)]_vars

\* a request has been brought to CREATED by the worker: its row carries a
\* result and a later updated_at, and still the spec it was created with
C17_Witness ==
    \E c \in Callers :
        /\ Has(table, api[c].request_id)
        /\ table[api[c].request_id].status = "CREATED"
        /\ Has(table[api[c].request_id], "result")
        /\ table[api[c].request_id].updated_at > table[api[c].request_id].created_at
        /\ table[api[c].request_id].request.subnets = PayloadA.subnets
        /\ table[api[c].request_id].created_by = api[c].event.created_by

\* ------------------------------------------------------------------ C18
\* C18: whenever a request is persisted as CREATED, its result holds a
\* network id and result.subnets holds exactly one entry per spec subnet,
\* with the spec's (cidr, az) pairs in spec order.
C18_CreatedIsComplete ==
    \A r \in RequestRows :
        table[r].status = "CREATED" =>
            /\ Has(table[r], "result")
            /\ Has(table[r].result, "vpc_id")
            /\ Len(ResultSubnets(table[r])) = Len(SpecSubnets(r))
            /\ \A j \in 1..Len(SpecSubnets(r)) :
                 KeyOf(ResultSubnets(table[r])[j]) = KeyOf(SpecSubnets(r)[j])

\* ------------------------------------------------------------------ C20
\* the create-request of caller c has been read and has passed validation
Submitted(c) == api[c].pc # "start" /\ api[c].resp.statusCode # 400

Pair(c) == <<api[c].event.created_by, api[c].event.idem>>

\* C20: two submissions with different (identity, token) pairs never derive
\* the same lock key, and a create-request is only ever answered with the id
\* of a request stored under its own identity and token.
C20_LockKeyInjective ==
    /\ \A c, d \in Callers :
         (Submitted(c) /\ Submitted(d) /\ Pair(c) # Pair(d)) => LockKeyOf(c) # LockKeyOf(d)
    /\ \A c \in Callers :
         (/\ Returned(c)
          /\ api[c].resp.statusCode = 202
          /\ Has(table, api[c].resp.body.request_id))
            => /\ table[api[c].resp.body.request_id].created_by = api[c].event.created_by
               /\ table[api[c].resp.body.request_id].idempotency_key = api[c].event.idem

\* ------------------------------------------------------------------ C19
\* the conditional lock write of caller c succeeded
WonLock(c) == \E x \in lockWins : x.caller = c

\* the request row named by c's lock row exists and its message was enqueued
Backed(c) ==
    /\ Has(table, api[c].request_id)
    /\ IsRequest(api[c].request_id)
    /\ Returned(c)
    /\ api[c].resp = _resp(202, [request_id |-> api[c].request_id, status |-> "QUEUED"])

\* C19: under fair scheduling, once a lock row is written the request row it
\* names eventually exists and its message is eventually enqueued, even if
\* the invocation that wrote the lock is killed before it has done so.
C19_LockEventuallyBacked == \A c \in Callers : WonLock(c) ~> Backed(c)

====
